---- MODULE Spec2Model ----
(***************************************************************************)
(* A model of arborist (src/main.rs): an interactive tool that walks the   *)
(* local branches of a git repository, oldest commit first, and asks for   *)
(* each one whether to keep or delete it.                                  *)
(*                                                                         *)
(* The state is the repository's branch references, the terminal mode, the *)
(* position of main and of the functions it calls, and what has been       *)
(* written to the terminal.  Every fallible call of the source (every `?`  *)
(* operator) has a failing outcome here.                                   *)
(***************************************************************************)
EXTENDS Integers, Sequences, FiniteSets, TLC

VARIABLES
    pc,          \* where the program is
    refs,        \* the repository: local branch name -> tip commit
    refs0,       \* the repository as it was when the program started
    head,        \* the checked-out branch ("" when HEAD is detached)
    rawMode,     \* whether the terminal is in raw mode
    restores,    \* how many times disable_raw_mode has been called
    restoreErr,  \* whether disable_raw_mode returned the error that .ok() discards
    branches,    \* main's `branches`: the Vec<Branch> get_branches returned
    idx,         \* the position of main's for loop in `branches`
    helps,       \* help legends printed by the current get_branch_action_from_user chain
    eofs,        \* end-of-input retries of the current chain
    nprompts,    \* prompts written by the current chain
    prompts,     \* names of the branches act_on_branch asked the user about, in order
    lastPrompt,  \* the text of the last prompt written
    pending,     \* whether stdout holds a prompt that has not been flushed
    echoed,      \* whether the character read for the current prompt has been echoed
    c,           \* the character read (its code point)
    decisions,   \* the BranchActions try_from returned, with the branch each was for
    out,         \* the status lines written to stdout
    result,      \* the closure's result in main
    stderr,      \* the message main printed with eprintln!
    exitCode     \* the process's exit status (-1 while it runs)

vars == <<pc, refs, refs0, head, rawMode, restores, restoreErr, branches, idx, helps, eofs,
          nprompts, prompts, lastPrompt, pending, echoed, c, decisions, out,
          result, stderr, exitCode>>

---------------------------------------------------------------------------
(* Bounds of the model. *)

\* At most this many local branches in the repository (master included).
MaxBranches == 3
\* The nested calls of get_branch_action_from_user (one per `?` and one per
\* end-of-input) the stack has room for, on top of the first.
MaxDepth == 2

---------------------------------------------------------------------------
(* Program constants. *)

CharK == 107       \* 'k'
CharD == 100       \* 'd'
CharQ == 113       \* 'q'
CharHelp == 63     \* '?'
OidBytes == 20     \* git2::Oid is 20 raw bytes
AbbrevLen == 10    \* the prompt shows the first 10 hex digits of the id
Trunk == "master"

\* Bytes the user may type: the four commands, and two that are none of
\* them ('K': the commands are case-sensitive; the byte 255).
InputBytes == {CharK, CharD, CharQ, CharHelp, 75, 255}

Names == {Trunk, "feature-a", "feature-b", "topic"}

MkOid(first, last) ==
    [i \in 1..OidBytes |-> IF i = 1 THEN first ELSE IF i = OidBytes THEN last ELSE 0]

\* The commits branches may point to.  Their ids agree on their first 10
\* hex digits.  CommitB is the earlier in UTC seconds and the later in
\* local time.  Two branches on the same commit have the same time.
CommitA == [id |-> MkOid(171, 1), seconds |-> 60, offset_minutes |-> 0]
CommitB == [id |-> MkOid(171, 2), seconds |-> 0, offset_minutes |-> 2]
Commits == {CommitA, CommitB}

---------------------------------------------------------------------------
(* Pure functions. *)

HexDigits == <<"0", "1", "2", "3", "4", "5", "6", "7",
               "8", "9", "a", "b", "c", "d", "e", "f">>

\* Oid's Display: two lower-case hex digits per byte.
OidToString(id) ==
    [i \in 1..(2 * Len(id)) |->
        LET b == id[(i + 1) \div 2]
        IN  HexDigits[(IF i % 2 = 1 THEN b \div 16 ELSE b % 16) + 1]]

\* &branch.id.to_string()[0..10]
AbbrevHash(id) == SubSeq(OidToString(id), 1, AbbrevLen)

\* LocalTime with the recorded offset left out.
LocalTime_Utc(commit) == commit.seconds

\* The commit's time as NaiveDateTime: the timestamp plus the recorded
\* offset, in seconds since the epoch.
LocalTime(commit) == commit.seconds + 60 * commit.offset_minutes

\* char::from(byte): the code point with the byte's value.
CharFromByte(byte) == byte

OkResult == [tag |-> "Ok", kind |-> "", ch |-> 0]
Running == [tag |-> "Running", kind |-> "", ch |-> 0]
Err(kind, ch) == [tag |-> "Err", kind |-> kind, ch |-> ch]

\* TryFrom accepting the upper-case letters too.
TryFrom_CaseInsensitive(value) ==
    IF value \in {CharK, CharK - 32} THEN [ok |-> TRUE, action |-> "Keep", err |-> Running]
    ELSE IF value \in {CharD, CharD - 32} THEN [ok |-> TRUE, action |-> "Delete", err |-> Running]
    ELSE IF value \in {CharQ, CharQ - 32} THEN [ok |-> TRUE, action |-> "Quit", err |-> Running]
    ELSE [ok |-> FALSE, action |-> "", err |-> Err("InvalidInput", value)]

\* BranchAction::try_from
TryFrom(value) ==
    IF value = CharK THEN [ok |-> TRUE, action |-> "Keep", err |-> Running]
    ELSE IF value = CharD THEN [ok |-> TRUE, action |-> "Delete", err |-> Running]
    ELSE IF value = CharQ THEN [ok |-> TRUE, action |-> "Quit", err |-> Running]
    ELSE [ok |-> FALSE, action |-> "", err |-> Err("InvalidInput", value)]

\* Error's Display.
ErrorMessage(e) ==
    IF e.kind = "InvalidInput"
    THEN [text |-> "Invalid input, Don't know what '{0}' means", arg |-> e.ch]
    ELSE [text |-> e.kind, arg |-> 0]

NoMessage == [text |-> "", arg |-> 0]

---------------------------------------------------------------------------
(* get_branches *)

NoBranch == [name |-> "", id |-> <<>>, time |-> 0, is_head |-> FALSE]

\* MapBranch never marking the checked-out branch.
MapBranch_NeverHead(r, h, n, fault) ==
    IF fault # ""
    THEN [ok |-> FALSE, kind |-> fault, branch |-> NoBranch]
    ELSE [ok |-> TRUE, kind |-> "",
          branch |-> [name |-> n, id |-> r[n].id, time |-> LocalTime(r[n]),
                      is_head |-> FALSE]]

\* The closure get_branches maps over the local branches: the descriptor of
\* branch n, or the error reading its name or peeling its tip gave.
MapBranch(r, h, n, fault) ==
    IF fault # ""
    THEN [ok |-> FALSE, kind |-> fault, branch |-> NoBranch]
    ELSE [ok |-> TRUE, kind |-> "",
          branch |-> [name |-> n, id |-> r[n].id, time |-> LocalTime(r[n]),
                      is_head |-> (n = h)]]

\* KeepBranch without the test on the name.
KeepBranch_All(x) == TRUE

\* KeepBranch letting only readable branches through.
KeepBranch_DropErrors(x) == IF x.ok THEN x.branch.name # Trunk ELSE FALSE

\* The closure get_branches filters with: errors stay, master goes.
KeepBranch(x) == IF x.ok THEN x.branch.name # Trunk ELSE TRUE

\* The key of sort_unstable_by_key.
SortKey(branch) == branch.time

IsSortedByKey(s) ==
    \A i, j \in 1..Len(s) : i < j => SortKey(s[i]) <= SortKey(s[j])

\* The orders sort_unstable_by_key may leave the elements of S in: the
\* sort is not stable and the repository yields its branches in no
\* particular order, so every sorted arrangement is possible.
SortUnstableByKey(S) ==
    {s \in [1..Cardinality(S) -> S] :
        /\ \A i, j \in 1..Cardinality(S) : i # j => s[i] # s[j]
        /\ IsSortedByKey(s)}

\* The results get_branches may return for repository r with HEAD h, where
\* faults[n] names the error that reading branch n gives ("" for none).
GetBranches(r, h, faults) ==
    LET mapped == {MapBranch(r, h, n, faults[n]) : n \in DOMAIN r}
        filtered == {x \in mapped : KeepBranch(x)}
        errors == {x \in filtered : ~x.ok}
    IN  IF errors # {}
        THEN {[ok |-> FALSE, kind |-> x.kind, branches |-> <<>>] : x \in errors}
        ELSE {[ok |-> TRUE, kind |-> "", branches |-> s] :
                 s \in SortUnstableByKey({x.branch : x \in filtered})}

ListFaults == {"", "GitError", "FromUtf8Error"}

\* The faults reading the branches of r may meet: name_bytes and
\* peel_to_commit may fail for any branch, String::from_utf8 for any but
\* master (the bytes of the name "master" are UTF-8).
BranchFaults(r) ==
    {f \in [DOMAIN r -> ListFaults] : Trunk \in DOMAIN r => f[Trunk] # "FromUtf8Error"}

---------------------------------------------------------------------------
(* The initial state: main is about to run in some repository. *)

Repositories ==
    UNION {[S -> Commits] : S \in {T \in SUBSET Names : Cardinality(T) <= MaxBranches}}

Init ==
    /\ refs \in Repositories
    /\ refs0 = refs
    /\ head \in DOMAIN refs \cup {""}
    /\ pc = "open"
    /\ rawMode = FALSE
    /\ restores = 0
    /\ restoreErr = FALSE
    /\ branches = <<>>
    /\ idx = 0
    /\ helps = 0
    /\ eofs = 0
    /\ nprompts = 0
    /\ prompts = <<>>
    /\ lastPrompt = [name |-> "", hash |-> <<>>, time |-> 0]
    /\ pending = FALSE
    /\ echoed = FALSE
    /\ c = 0
    /\ decisions = <<>>
    /\ out = <<>>
    /\ result = Running
    /\ stderr = NoMessage
    /\ exitCode = -1

---------------------------------------------------------------------------
(* main's closure *)

\* An error leaves the closure at once (the `?` operator).
Fail(e) ==
    /\ result' = e
    /\ pc' = "restore"

\* The closure returns Ok(()).
ReturnOk ==
    /\ result' = OkResult
    /\ pc' = "restore"

\* OpenRepository with raw mode entered before the repository is opened.
OpenRepository_RawFirst ==
    /\ pc = "open"
    /\ rawMode' = TRUE
    /\ \E ok \in BOOLEAN :
          IF ok THEN pc' = "enable" /\ result' = result
                ELSE Fail(Err("GitError", 0))
    /\ UNCHANGED <<refs, refs0, head, restores, restoreErr, branches, idx, helps, eofs,
                   nprompts, prompts, lastPrompt, pending, echoed, c, decisions,
                   out, stderr, exitCode>>

\* Repository::open_from_env()?
OpenRepository ==
    /\ pc = "open"
    /\ \E ok \in BOOLEAN :
          IF ok THEN pc' = "enable" /\ result' = result
                ELSE Fail(Err("GitError", 0))
    /\ UNCHANGED <<refs, refs0, head, rawMode, restores, restoreErr, branches, idx, helps, eofs,
                   nprompts, prompts, lastPrompt, pending, echoed, c, decisions,
                   out, stderr, exitCode>>

\* terminal::enable_raw_mode()?
EnableRawMode ==
    /\ pc = "enable"
    /\ \E ok \in BOOLEAN :
          IF ok THEN pc' = "list" /\ result' = result /\ rawMode' = TRUE
                ELSE Fail(Err("CrosstermError", 0)) /\ rawMode' = rawMode
    /\ UNCHANGED <<refs, refs0, head, restores, restoreErr, branches, idx, helps, eofs,
                   nprompts, prompts, lastPrompt, pending, echoed, c, decisions,
                   out, stderr, exitCode>>

\* ListBranches entering the loop whatever get_branches returned.
ListBranches_AlwaysLoop ==
    /\ pc = "list"
    /\ \E enumerated \in BOOLEAN, faults \in BranchFaults(refs) :
          IF ~enumerated
          THEN Fail(Err("GitError", 0)) /\ branches' = branches
          ELSE \E got \in GetBranches(refs, head, faults) :
                  IF got.ok
                  THEN /\ branches' = got.branches
                       /\ pc' = "loop"
                       /\ result' = result
                  ELSE Fail(Err(got.kind, 0)) /\ branches' = branches
    /\ UNCHANGED <<refs, refs0, head, rawMode, restores, restoreErr, idx, helps, eofs,
                   nprompts, prompts, lastPrompt, pending, echoed, c, decisions,
                   out, stderr, exitCode>>

\* let mut branches = get_branches(&repo)?; and the test branches.is_empty()
ListBranches ==
    /\ pc = "list"
    /\ \E enumerated \in BOOLEAN, faults \in BranchFaults(refs) :
          IF ~enumerated
          THEN Fail(Err("GitError", 0)) /\ branches' = branches
          ELSE \E got \in GetBranches(refs, head, faults) :
                  IF got.ok
                  THEN /\ branches' = got.branches
                       /\ pc' = IF got.branches = <<>> THEN "empty" ELSE "loop"
                       /\ result' = result
                  ELSE Fail(Err(got.kind, 0)) /\ branches' = branches
    /\ UNCHANGED <<refs, refs0, head, rawMode, restores, restoreErr, idx, helps, eofs,
                   nprompts, prompts, lastPrompt, pending, echoed, c, decisions,
                   out, stderr, exitCode>>

\* write!(app.stdout, "Found no branches (master is ignored)")?; Ok(())
WriteFoundNone ==
    /\ pc = "empty"
    /\ \E ok \in BOOLEAN :
          IF ok THEN ReturnOk /\ out' = Append(out, [kind |-> "FoundNone", name |-> "", id |-> <<>>])
                ELSE Fail(Err("IoError", 0)) /\ out' = out
    /\ UNCHANGED <<refs, refs0, head, rawMode, restores, restoreErr, branches, idx, helps, eofs,
                   nprompts, prompts, lastPrompt, pending, echoed, c, decisions,
                   stderr, exitCode>>

\* ForLoop starting over at the first branch after the last one.
ForLoop_StartsOver ==
    /\ pc = "loop"
    /\ idx' = IF idx = Len(branches) THEN 1 ELSE idx + 1
    /\ pc' = IF branches[idx'].is_head THEN "head" ELSE "prompt"
    /\ result' = result
    /\ UNCHANGED <<refs, refs0, head, rawMode, restores, restoreErr, branches,
                   helps, eofs, nprompts, prompts, lastPrompt, pending, echoed, c, decisions,
                   out, stderr, exitCode>>

\* for branch in &mut branches { act_on_branch(branch, &mut app)?; } Ok(())
\* One step of the loop: the next branch enters act_on_branch, which tests
\* branch.is_head; after the last one the closure returns Ok(()).
ForLoop ==
    /\ pc = "loop"
    /\ IF idx = Len(branches)
       THEN ReturnOk /\ idx' = idx
       ELSE /\ idx' = idx + 1
            /\ pc' = IF branches[idx + 1].is_head THEN "head" ELSE "prompt"
            /\ result' = result
    /\ UNCHANGED <<refs, refs0, head, rawMode, restores, restoreErr, branches,
                   helps, eofs, nprompts, prompts, lastPrompt, pending, echoed, c, decisions,
                   out, stderr, exitCode>>

---------------------------------------------------------------------------
(* act_on_branch and get_branch_action_from_user *)

Current == branches[idx]

PromptText(branch) ==
    [name |-> branch.name, hash |-> AbbrevHash(branch.id), time |-> branch.time]

IgnoringLine(branch) == [kind |-> "Ignoring", name |-> branch.name, id |-> <<>>]

\* DeletedLine printing the id as the prompt does, cut to 10 digits.
DeletedLine_Abbrev(branch) ==
    [kind |-> "Deleted", name |-> branch.name, id |-> AbbrevHash(branch.id)]

\* "Deleted branch '{}', to undo run `git branch {} {}`": its arguments.
DeletedLine(branch) ==
    [kind |-> "Deleted", name |-> branch.name, id |-> OidToString(branch.id)]

\* AfterAction with the Keep and Delete arms exchanged.
AfterAction_Swapped(action) ==
    IF action = "Keep" THEN "delete" ELSE "loop"

\* What act_on_branch does once get_branch_action_from_user has returned
\* `action`: the place it continues at.  Quit returns Ok(()) from
\* act_on_branch, which takes main's loop to its next branch, as Keep does.
AfterAction(action) ==
    IF action = "Delete" THEN "delete" ELSE "loop"

\* The is_head arm: write!(app.stdout, "Ignoring '{}' because it is the current branch")?
WriteIgnoring ==
    /\ pc = "head"
    /\ \E ok \in BOOLEAN :
          IF ok THEN /\ out' = Append(out, IgnoringLine(Current))
                     /\ pc' = "loop"
                     /\ result' = result
                ELSE Fail(Err("IoError", 0)) /\ out' = out
    /\ UNCHANGED <<refs, refs0, head, rawMode, restores, restoreErr, branches, idx, helps, eofs,
                   nprompts, prompts, lastPrompt, pending, echoed, c, decisions,
                   stderr, exitCode>>

\* get_branch_action_from_user returns, with an action or with an error:
\* its locals are gone.
DropLocals ==
    /\ c' = 0
    /\ helps' = 0
    /\ eofs' = 0
    /\ nprompts' = 0
    /\ echoed' = FALSE

\* write!(app.stdout, "{} {} last commit at {} {} > ", ...)?
WritePrompt ==
    /\ pc = "prompt"
    /\ \E ok \in BOOLEAN :
          IF ok THEN /\ lastPrompt' = PromptText(Current)
                     /\ nprompts' = nprompts + 1
                     /\ prompts' = IF nprompts = 0 THEN Append(prompts, Current.name)
                                                   ELSE prompts
                     /\ pending' = TRUE
                     /\ pc' = "flush"
                     /\ UNCHANGED <<c, helps, eofs, echoed, result>>
                ELSE /\ Fail(Err("IoError", 0))
                     /\ DropLocals
                     /\ UNCHANGED <<lastPrompt, prompts, pending>>
    /\ UNCHANGED <<refs, refs0, head, rawMode, restores, restoreErr, branches, idx,
                   decisions, out, stderr, exitCode>>

\* FlushPrompt going on to the read with the prompt still in the buffer.
FlushPrompt_Skipped ==
    /\ pc = "flush"
    /\ pc' = "read"
    /\ UNCHANGED <<refs, refs0, head, rawMode, restores, restoreErr, branches, idx,
                   helps, eofs, nprompts, prompts, lastPrompt, pending, echoed, c,
                   decisions, out, result, stderr, exitCode>>

\* app.stdout.flush()?
FlushPrompt ==
    /\ pc = "flush"
    /\ \E ok \in BOOLEAN :
          IF ok THEN /\ pending' = FALSE
                     /\ pc' = "read"
                     /\ UNCHANGED <<c, helps, eofs, nprompts, echoed, result>>
                ELSE /\ Fail(Err("IoError", 0))
                     /\ DropLocals
                     /\ pending' = pending
    /\ UNCHANGED <<refs, refs0, head, rawMode, restores, restoreErr, branches, idx,
                   prompts, lastPrompt, decisions, out, stderr, exitCode>>

\* app.stdin.next() gives a byte: the input has not ended.  (A `?` is read
\* only while the model's bound on the nesting of calls allows its
\* re-prompt.)
ReadByte ==
    /\ pc = "read"
    /\ eofs = 0
    /\ \E byte \in InputBytes :
          /\ byte = CharHelp => helps + eofs < MaxDepth
          /\ c' = CharFromByte(byte)
    /\ pc' = "echo"
    /\ UNCHANGED <<refs, refs0, head, rawMode, restores, restoreErr, branches, idx,
                   helps, eofs, nprompts, prompts, lastPrompt, pending, echoed,
                   decisions, out, result, stderr, exitCode>>

\* app.stdin.next() gives None, the input has ended (and an input that has
\* ended gives None from then on): the function calls itself again, one
\* stack frame deeper.
ReadEndOfInput ==
    /\ pc = "read"
    /\ helps + eofs < MaxDepth
    /\ eofs' = eofs + 1
    /\ pc' = "prompt"
    /\ UNCHANGED <<refs, refs0, head, rawMode, restores, restoreErr, branches, idx,
                   helps, nprompts, prompts, lastPrompt, pending, echoed, c,
                   decisions, out, result, stderr, exitCode>>

\* app.stdin.next() gives None with the stack full: the call of
\* get_branch_action_from_user is not a tail call (the prompt's strings are
\* dropped after it returns), so every retry holds a frame, and the retry
\* the stack has no room for ends the process there (Rust's stack guard
\* aborts it: SIGABRT, 134 to the shell).  Nothing of main runs after it.
StackOverflow ==
    /\ pc = "read"
    /\ helps + eofs = MaxDepth
    /\ eofs' = eofs + 1
    /\ pc' = "aborted"
    /\ exitCode' = 134
    /\ UNCHANGED <<refs, refs0, head, rawMode, restores, restoreErr, branches, idx,
                   helps, nprompts, prompts, lastPrompt, pending, echoed, c,
                   decisions, out, result, stderr>>

\* app.stdin.next() gives Some(Err(_)): byte? fails.
ReadError ==
    /\ pc = "read"
    /\ Fail(Err("IoError", 0))
    /\ DropLocals
    /\ UNCHANGED <<refs, refs0, head, rawMode, restores, restoreErr, branches, idx,
                   prompts, lastPrompt, pending, decisions, out, stderr, exitCode>>

\* write!(app.stdout, "{}\r\n", c)?; and the test c == '?'
EchoChar ==
    /\ pc = "echo"
    /\ \E ok \in BOOLEAN :
          IF ok THEN /\ echoed' = TRUE
                     /\ pc' = IF c = CharHelp THEN "help" ELSE "act"
                     /\ UNCHANGED <<c, helps, eofs, nprompts, result>>
                ELSE Fail(Err("IoError", 0)) /\ DropLocals
    /\ UNCHANGED <<refs, refs0, head, rawMode, restores, restoreErr, branches, idx,
                   prompts, lastPrompt, pending, decisions, out, stderr, exitCode>>

\* ShowHelp returning to main's loop instead of asking again.
ShowHelp_Advances ==
    /\ pc = "help"
    /\ \E ok \in BOOLEAN :
          IF ok THEN /\ pc' = "loop"
                     /\ DropLocals
                     /\ result' = result
                ELSE Fail(Err("IoError", 0)) /\ DropLocals
    /\ UNCHANGED <<refs, refs0, head, rawMode, restores, restoreErr, branches, idx,
                   prompts, lastPrompt, pending, decisions, out, stderr, exitCode>>

\* The `?` arm: the legend's writes, the flush, and the call of
\* get_branch_action_from_user again, which has read no character yet.
ShowHelp ==
    /\ pc = "help"
    /\ \E ok \in BOOLEAN :
          IF ok THEN /\ helps' = helps + 1
                     /\ c' = 0
                     /\ echoed' = FALSE
                     /\ pc' = "prompt"
                     /\ UNCHANGED <<eofs, nprompts, result>>
                ELSE Fail(Err("IoError", 0)) /\ DropLocals
    /\ UNCHANGED <<refs, refs0, head, rawMode, restores, restoreErr, branches, idx,
                   prompts, lastPrompt, pending, decisions, out, stderr, exitCode>>

\* Interpret with the caller asking again for the same branch when the
\* character is not a command.
Interpret_Reprompts ==
    /\ pc = "act"
    /\ LET r == TryFrom(c)
       IN  IF r.ok
           THEN /\ decisions' = Append(decisions, [name |-> Current.name, action |-> r.action])
                /\ pc' = AfterAction(r.action)
                /\ result' = result
           ELSE /\ pc' = "prompt"
                /\ result' = result
                /\ decisions' = decisions
    /\ DropLocals
    /\ UNCHANGED <<refs, refs0, head, rawMode, restores, restoreErr, branches, idx,
                   prompts, lastPrompt, pending, out, stderr, exitCode>>

\* BranchAction::try_from(c), the `?` on its result in act_on_branch, and
\* the match on the action.
Interpret ==
    /\ pc = "act"
    /\ LET r == TryFrom(c)
       IN  IF r.ok
           THEN /\ decisions' = Append(decisions, [name |-> Current.name, action |-> r.action])
                /\ pc' = AfterAction(r.action)
                /\ result' = result
           ELSE Fail(r.err) /\ decisions' = decisions
    /\ DropLocals
    /\ UNCHANGED <<refs, refs0, head, rawMode, restores, restoreErr, branches, idx,
                   prompts, lastPrompt, pending, out, stderr, exitCode>>

\* DeleteRef removing every branch that points to the commit of `name`.
DeleteRef_SameTip(r, name) == [n \in {x \in DOMAIN r : r[x] # r[name]} |-> r[n]]

\* Branch::delete on the repository: the reference is removed.
DeleteRef(r, name) == [n \in DOMAIN r \ {name} |-> r[n]]

\* DeleteBranch going on to the confirmation when the deletion failed.
DeleteBranch_IgnoresError ==
    /\ pc = "delete"
    /\ \E ok \in BOOLEAN :
          /\ refs' = IF ok THEN DeleteRef(refs, Current.name) ELSE refs
          /\ pc' = "confirm"
          /\ result' = result
    /\ UNCHANGED <<refs0, head, rawMode, restores, restoreErr, branches, idx, helps, eofs,
                   nprompts, prompts, lastPrompt, pending, echoed, c, decisions,
                   out, stderr, exitCode>>

\* branch.delete()?
DeleteBranch ==
    /\ pc = "delete"
    /\ \E ok \in BOOLEAN :
          IF ok THEN /\ refs' = DeleteRef(refs, Current.name)
                     /\ pc' = "confirm"
                     /\ result' = result
                ELSE Fail(Err("GitError", 0)) /\ refs' = refs
    /\ UNCHANGED <<refs0, head, rawMode, restores, restoreErr, branches, idx, helps, eofs,
                   nprompts, prompts, lastPrompt, pending, echoed, c, decisions,
                   out, stderr, exitCode>>

\* WriteDeleted handing the deleted branch back to the prompt.
WriteDeleted_AsksAgain ==
    /\ pc = "confirm"
    /\ \E ok \in BOOLEAN :
          IF ok THEN /\ out' = Append(out, DeletedLine(Current))
                     /\ pc' = "prompt"
                     /\ result' = result
                ELSE Fail(Err("IoError", 0)) /\ out' = out
    /\ UNCHANGED <<refs, refs0, head, rawMode, restores, restoreErr, branches, idx, helps, eofs,
                   nprompts, prompts, lastPrompt, pending, echoed, c, decisions,
                   stderr, exitCode>>

\* write!(app.stdout, "{}\r\n", styled_message)? after the deletion
WriteDeleted ==
    /\ pc = "confirm"
    /\ \E ok \in BOOLEAN :
          IF ok THEN /\ out' = Append(out, DeletedLine(Current))
                     /\ pc' = "loop"
                     /\ result' = result
                ELSE Fail(Err("IoError", 0)) /\ out' = out
    /\ UNCHANGED <<refs, refs0, head, rawMode, restores, restoreErr, branches, idx, helps, eofs,
                   nprompts, prompts, lastPrompt, pending, echoed, c, decisions,
                   stderr, exitCode>>

---------------------------------------------------------------------------
(* The end of main *)

\* What terminal::disable_raw_mode() leaves the mode as: off when it
\* succeeds, as it was when it fails.
DisableRawMode(mode, ok) == IF ok THEN FALSE ELSE mode

\* RestoreTerminal as it would be with the restoration inside the closure,
\* after the loop: an error leaves it out.
RestoreTerminal_SkippedOnError ==
    /\ pc = "restore"
    /\ IF result.tag = "Ok"
       THEN /\ \E ok \in BOOLEAN :
                  /\ rawMode' = DisableRawMode(rawMode, ok)
                  /\ restoreErr' = ~ok
            /\ restores' = restores + 1
       ELSE UNCHANGED <<rawMode, restoreErr, restores>>
    /\ pc' = "report"
    /\ UNCHANGED <<refs, refs0, head, branches, idx, helps, eofs,
                   nprompts, prompts, lastPrompt, pending, echoed, c, decisions,
                   out, result, stderr, exitCode>>

\* terminal::disable_raw_mode().ok();
RestoreTerminal ==
    /\ pc = "restore"
    /\ \E ok \in BOOLEAN :
          /\ rawMode' = DisableRawMode(rawMode, ok)
          /\ restoreErr' = ~ok
    /\ restores' = restores + 1
    /\ pc' = "report"
    /\ UNCHANGED <<refs, refs0, head, branches, idx, helps, eofs,
                   nprompts, prompts, lastPrompt, pending, echoed, c, decisions,
                   out, result, stderr, exitCode>>

\* ExitCodeOf without the exit(1) of the Err arm.
ExitCodeOf_AlwaysZero(r) == 0

\* The exit code main's match on the result gives.
ExitCodeOf(r) == IF r.tag = "Ok" THEN 0 ELSE 1

\* match result { Ok(()) => {} Err(error) => { eprintln!(..); exit(1) } }
ReportAndExit ==
    /\ pc = "report"
    /\ stderr' = IF result.tag = "Ok" THEN stderr ELSE ErrorMessage(result)
    /\ exitCode' = ExitCodeOf(result)
    /\ pc' = "exited"
    /\ UNCHANGED <<refs, refs0, head, rawMode, restores, restoreErr, branches, idx, helps, eofs,
                   nprompts, prompts, lastPrompt, pending, echoed, c, decisions,
                   out, result>>

Next ==
    \/ OpenRepository
    \/ EnableRawMode
    \/ ListBranches
    \/ WriteFoundNone
    \/ ForLoop
    \/ WriteIgnoring
    \/ WritePrompt
    \/ FlushPrompt
    \/ ReadByte
    \/ ReadEndOfInput
    \/ StackOverflow
    \/ ReadError
    \/ EchoChar
    \/ ShowHelp
    \/ Interpret
    \/ DeleteBranch
    \/ WriteDeleted
    \/ RestoreTerminal
    \/ ReportAndExit

Spec == Init /\ [][Next]_vars

\* The program is one thread and nothing suspends it for ever: a write, a
\* flush or a deletion returns, and a read returns a byte, the end of the
\* input or an error.  So a step that can be taken is taken.
FairSpec == Spec /\ WF_vars(Next)

---------------------------------------------------------------------------
(* Vocabulary of the properties *)

Range(s) == {s[i] : i \in 1..Len(s)}

\* The position of the branch named n in main's `branches` (0 if absent).
Pos(n) ==
    IF \E i \in 1..Len(branches) : branches[i].name = n
    THEN CHOOSE i \in 1..Len(branches) : branches[i].name = n
    ELSE 0

\* The number of status lines of a kind written for the branch named n.
LineCount(kind, n) ==
    Cardinality({i \in 1..Len(out) : out[i].kind = kind /\ out[i].name = n})

Ended == pc \in {"restore", "report", "exited"}

\* No call into the operating system, the terminal or git has failed.
EnvOk == result.kind \notin {"IoError", "GitError", "CrosstermError", "FromUtf8Error"}

\* The commit local time of the branch named n at the start of the session.
LocalTime0(n) == refs0[n].seconds + 60 * refs0[n].offset_minutes

StillThere(n) == n \in DOMAIN refs /\ refs[n] = refs0[n]

---------------------------------------------------------------------------
(* C1 *)

\* C1: once `q` has been typed at a branch's prompt the session is over:
\* no later decision is read, no later branch is prompted for, no later
\* HEAD branch is reported, nothing is deleted afterwards, and the run
\* exits with code 0.
C1_QuitEndsSession ==
    \A i \in 1..Len(decisions) :
        decisions[i].action = "Quit" =>
            LET q == Pos(decisions[i].name)
            IN  /\ i = Len(decisions)
                /\ \A j \in 1..Len(prompts) : Pos(prompts[j]) <= q
                /\ \A j \in 1..Len(out) : Pos(out[j].name) < q
                /\ \A j \in 1..Len(branches) : j >= q => StillThere(branches[j].name)
                /\ pc = "exited" => exitCode = 0

---------------------------------------------------------------------------
(* C2 *)

\* The run is over, the reviewed sequence has no HEAD branch, every branch
\* got its decision, each a Keep or a Delete, and nothing failed.
C2_Case ==
    /\ pc = "exited"
    /\ EnvOk
    /\ \A i \in 1..Len(branches) : ~branches[i].is_head
    /\ Len(decisions) = Len(branches)
    /\ \A i \in 1..Len(decisions) : decisions[i].action \in {"Keep", "Delete"}

\* C2: with no HEAD branch reviewed and only `k` and `d` typed, the i-th
\* prompt and the i-th decision are for the i-th branch in ascending
\* commit-time order, a branch is gone at the end if and only if its
\* decision was Delete, a deleted branch has exactly one confirmation line
\* and a kept one none, a kept branch still points to its commit, and the
\* exit code is 0.
C2_KeepDeleteRun ==
    C2_Case =>
        /\ prompts = [i \in 1..Len(branches) |-> branches[i].name]
        /\ \A i, j \in 1..Len(branches) :
              i < j => LocalTime0(branches[i].name) <= LocalTime0(branches[j].name)
        /\ \A i \in 1..Len(branches) :
              LET n == branches[i].name
              IN  /\ decisions[i].name = n
                  /\ (n \notin DOMAIN refs) <=> (decisions[i].action = "Delete")
                  /\ LineCount("Deleted", n) = IF decisions[i].action = "Delete" THEN 1 ELSE 0
                  /\ decisions[i].action = "Keep" => StillThere(n)
        /\ exitCode = 0

\* The scenario of the specification: the older branch kept, the newer one
\* deleted.
C2_Witness ==
    /\ C2_Case
    /\ Len(branches) = 2
    /\ LocalTime0(branches[1].name) < LocalTime0(branches[2].name)
    /\ decisions[1].action = "Keep"
    /\ decisions[2].action = "Delete"

---------------------------------------------------------------------------
(* C3 *)

HeadNeverOffered ==
    head # "" => /\ head \notin Range(prompts)
                 /\ \A i \in 1..Len(decisions) : decisions[i].name # head
                 /\ StillThere(head)

\* C3 as the specification states it: the checked-out branch, whatever its
\* name, is never prompted for and never deleted, and a run that completes
\* has printed exactly one 'Ignoring' line for it.
C3_HeadAlwaysReported ==
    /\ HeadNeverOffered
    /\ (pc = "exited" /\ exitCode = 0 /\ head # "") => LineCount("Ignoring", head) = 1

\* C3, amended: the checked-out branch is never prompted for and never
\* deleted; a run that completes has printed exactly one 'Ignoring' line
\* for it when it is not master, and none when it is master; a repository
\* whose only branch is a HEAD other than master gives that one line, no
\* prompt and exit code 0.
C3_HeadSkipped ==
    /\ HeadNeverOffered
    /\ (pc = "exited" /\ exitCode = 0 /\ head # "") =>
          LineCount("Ignoring", head) = IF head = Trunk THEN 0 ELSE 1
    /\ (pc = "exited" /\ EnvOk /\ DOMAIN refs0 = {head} /\ head # Trunk) =>
          /\ out = <<[kind |-> "Ignoring", name |-> head, id |-> <<>>]>>
          /\ prompts = <<>>
          /\ exitCode = 0

\* A completed run in which HEAD, not master, was the second of three
\* branches and the other two were asked about.
C3_Witness ==
    /\ pc = "exited"
    /\ exitCode = 0
    /\ head \notin {"", Trunk}
    /\ Len(branches) = 3
    /\ Pos(head) = 2
    /\ Len(prompts) = 2
    /\ LineCount("Ignoring", head) = 1

---------------------------------------------------------------------------
(* C4 *)

\* C4: master is never in the reviewed sequence: in every state it has not
\* been prompted for, not been reported as ignored, got no decision and has
\* not been deleted.
C4_MasterNeverReviewed ==
    /\ \A i \in 1..Len(branches) : branches[i].name # Trunk
    /\ Trunk \notin Range(prompts)
    /\ lastPrompt.name # Trunk
    /\ \A i \in 1..Len(out) : out[i].name # Trunk
    /\ \A i \in 1..Len(decisions) : decisions[i].name # Trunk
    /\ Trunk \in DOMAIN refs0 => StillThere(Trunk)

\* A finished run over a repository where master is the oldest of three
\* branches, and both others were deleted.
C4_Witness ==
    /\ pc = "exited"
    /\ Trunk \in DOMAIN refs0
    /\ Cardinality(DOMAIN refs0) = 3
    /\ \A n \in DOMAIN refs0 : LocalTime0(Trunk) <= LocalTime0(n)
    /\ \E n \in DOMAIN refs0 : LocalTime0(Trunk) < LocalTime0(n)
    /\ DOMAIN refs = {Trunk}

---------------------------------------------------------------------------
(* C5 *)

\* C5: the sequence get_branches returns holds each branch other than
\* master once, in non-decreasing order of commit local time (timestamp
\* seconds plus 60 times the offset minutes), each descriptor carrying that
\* time; the branches are then prompted for and reported in that order.
C5_SortedByLocalTime ==
    /\ Len(branches) > 0 =>
          /\ Range([i \in 1..Len(branches) |-> branches[i].name]) = DOMAIN refs0 \ {Trunk}
          /\ Len(branches) = Cardinality(DOMAIN refs0 \ {Trunk})
          /\ \A i \in 1..Len(branches) : branches[i].time = LocalTime0(branches[i].name)
          /\ \A i, j \in 1..Len(branches) :
                i < j => LocalTime0(branches[i].name) <= LocalTime0(branches[j].name)
    /\ pc = "empty" => DOMAIN refs0 \ {Trunk} = {}
    /\ \A i, j \in 1..Len(prompts) : i < j => Pos(prompts[i]) < Pos(prompts[j])
    /\ \A i, j \in 1..Len(out) : i < j => Pos(out[i].name) < Pos(out[j].name)
    /\ \A i \in 1..Len(prompts) : 0 < Pos(prompts[i]) /\ Pos(prompts[i]) <= idx
    /\ \A i \in 1..Len(out) : Pos(out[i].name) <= idx

\* Three branches listed, the first earlier than the last in local time
\* though later in timestamp seconds, and all three prompted for.
C5_Witness ==
    /\ Len(branches) = 3
    /\ LocalTime0(branches[1].name) < LocalTime0(branches[3].name)
    /\ refs0[branches[1].name].seconds > refs0[branches[3].name].seconds
    /\ Len(prompts) = 3

---------------------------------------------------------------------------
(* C6 *)

\* The positions inside get_branch_action_from_user after its prompt.
Prompted == pc \in {"flush", "read", "echo", "help", "act"}

\* C6: a `?` prints the legend and leads back to the prompt of the same
\* branch, leaving the loop's position, the repository, the decisions and
\* the status lines as they were; after n legends (and e end-of-input
\* retries) the prompt of the branch under review has been written n + e + 1
\* times, each time with the same text; and the command that follows is
\* applied to the branch whose prompt is showing, whatever n is.
C6_HelpReprompts ==
    /\ [](Prompted =>
            /\ nprompts = helps + eofs + 1
            /\ lastPrompt = PromptText(Current)
            /\ prompts # <<>> /\ prompts[Len(prompts)] = Current.name)
    /\ [][(pc = "echo" /\ c = CharHelp /\ pc' # "restore") => pc' = "help"]_vars
    /\ [][(pc = "help" /\ pc' # "restore") =>
            /\ pc' = "prompt"
            /\ helps' = helps + 1
            /\ UNCHANGED <<idx, refs, branches, decisions, out, prompts, result>>]_vars
    /\ [][(pc = "prompt" /\ pc' # "restore") =>
            /\ pc' = "flush"
            /\ lastPrompt' = PromptText(Current)
            /\ UNCHANGED <<idx, refs, branches, decisions, out, helps>>]_vars
    /\ [][(pc = "act" /\ c \in {CharK, CharD, CharQ}) =>
            /\ decisions' = Append(decisions,
                  [name |-> lastPrompt.name,
                   action |-> IF c = CharK THEN "Keep"
                              ELSE IF c = CharD THEN "Delete" ELSE "Quit"])
            /\ pc' = IF c = CharD THEN "delete" ELSE "loop"
            /\ UNCHANGED <<idx, refs, out>>]_vars
    /\ [][(pc = "delete" /\ pc' # "restore") =>
            /\ lastPrompt.name \in DOMAIN refs
            /\ refs' = [n \in DOMAIN refs \ {lastPrompt.name} |-> refs[n]]]_vars

\* `?` typed twice at a branch's prompt, which has been written three
\* times, then `d`, read and echoed and about to be applied.
C6_Witness ==
    /\ pc = "act"
    /\ helps = 2
    /\ eofs = 0
    /\ nprompts = 3
    /\ c = CharD
    /\ idx = 2
    /\ refs # refs0

---------------------------------------------------------------------------
(* C7 *)

Commands == {CharK, CharD, CharQ, CharHelp}

\* C7: a character that is none of k, d, q, ?, once echoed, is interpreted
\* as it is and makes the closure's result InvalidInput with exactly that
\* character, changing nothing else; and whenever the result is
\* InvalidInput the session is over, the exit code is 1 and the message
\* names the character, the branch under review is still there, no later
\* branch has been prompted for, reported or deleted, and the branches
\* deleted before are still deleted.
C7_InvalidInputAborts ==
    /\ [][(pc = "echo" /\ c \notin Commands /\ pc' # "restore") =>
            (pc' = "act" /\ c' = c)]_vars
    /\ [][(pc = "act" /\ c \notin Commands) =>
            /\ result' = [tag |-> "Err", kind |-> "InvalidInput", ch |-> c]
            /\ pc' = "restore"
            /\ UNCHANGED <<refs, idx, branches, prompts, decisions, out>>]_vars
    /\ [][(pc = "act" /\ c \in Commands) => result'.kind # "InvalidInput"]_vars
    /\ [](result.kind = "InvalidInput" =>
            /\ result.ch \notin Commands
            /\ Ended
            /\ pc = "exited" =>
                  /\ exitCode = 1
                  /\ stderr = [text |-> "Invalid input, Don't know what '{0}' means",
                               arg |-> result.ch]
            /\ StillThere(Current.name)
            /\ prompts # <<>> /\ prompts[Len(prompts)] = Current.name
            /\ \A j \in (idx + 1)..Len(branches) :
                  /\ branches[j].name \notin Range(prompts)
                  /\ StillThere(branches[j].name)
                  /\ \A i \in 1..Len(out) : out[i].name # branches[j].name
            /\ \A i \in 1..Len(decisions) :
                  /\ decisions[i].name # Current.name
                  /\ decisions[i].action = "Delete" => decisions[i].name \notin DOMAIN refs)

\* The first branch deleted, then `K` typed at the second branch's prompt,
\* with a third branch waiting, and the process gone.
C7_Witness ==
    /\ pc = "exited"
    /\ result = [tag |-> "Err", kind |-> "InvalidInput", ch |-> 75]
    /\ idx = 2
    /\ Len(branches) = 3
    /\ decisions # <<>> /\ decisions[1].action = "Delete"

---------------------------------------------------------------------------
(* C8 *)

\* C8 as the specification states it: on every exit path the restoration
\* has run exactly once, raw mode is off when the process exits, and the
\* exit code and the message are those of the closure's result.
C8_RawModeOffAtExit ==
    pc = "exited" =>
        /\ restores = 1
        /\ ~rawMode
        /\ exitCode = (IF result.tag = "Ok" THEN 0 ELSE 1)

\* C8, amended: on every exit path disable_raw_mode is called exactly once,
\* after the closure has returned and before the process exits; raw mode is
\* off at exit unless that call itself failed; and the call, failed or
\* not, leaves the closure's result as it was, which alone decides the exit
\* code and the message.
C8_RestoredOnce ==
    /\ [](/\ restores = (IF pc \in {"report", "exited"} THEN 1 ELSE 0)
          /\ Ended <=> result.tag # "Running"
          /\ pc = "exited" =>
                /\ rawMode => restoreErr
                /\ exitCode = (IF result.tag = "Ok" THEN 0 ELSE 1)
                /\ stderr = (IF result.tag = "Ok" THEN [text |-> "", arg |-> 0]
                             ELSE IF result.kind = "InvalidInput"
                             THEN [text |-> "Invalid input, Don't know what '{0}' means",
                                   arg |-> result.ch]
                             ELSE [text |-> result.kind, arg |-> 0]))
    /\ [][pc = "restore" => (pc' = "report" /\ result' = result)]_vars
    /\ [][pc = "report" => (pc' = "exited" /\ result' = result /\ rawMode' = rawMode)]_vars

\* The process gone after an invalid input, the restoration having failed:
\* the exit code is that of the invalid input.
C8_Witness ==
    /\ pc = "exited"
    /\ restores = 1
    /\ restoreErr
    /\ result.kind = "InvalidInput"
    /\ exitCode = 1

---------------------------------------------------------------------------
(* C9 *)

\* The deletion of the branch under review has failed.
DeleteFailed == result.kind = "GitError" /\ idx >= 1

\* C9: a confirmation line is only ever printed for a branch that is gone;
\* and once the deletion of the k-th branch has failed the session is over
\* with exit code 1, the branches deleted before are still deleted, the
\* failing branch is still there with no confirmation line, and no later
\* branch has been prompted for, reported or deleted.
C9_StopOnDeleteFailure ==
    /\ \A i \in 1..Len(out) : out[i].kind = "Deleted" => out[i].name \notin DOMAIN refs
    /\ pc = "confirm" => Current.name \notin DOMAIN refs
    /\ DeleteFailed =>
          /\ Ended
          /\ pc = "exited" => exitCode = 1
          /\ decisions # <<>>
          /\ decisions[Len(decisions)] = [name |-> Current.name, action |-> "Delete"]
          /\ StillThere(Current.name)
          /\ LineCount("Deleted", Current.name) = 0
          /\ \A i \in 1..(Len(decisions) - 1) :
                decisions[i].action = "Delete" =>
                    /\ decisions[i].name \notin DOMAIN refs
                    /\ LineCount("Deleted", decisions[i].name) = 1
          /\ \A j \in (idx + 1)..Len(branches) :
                /\ branches[j].name \notin Range(prompts)
                /\ StillThere(branches[j].name)
                /\ \A i \in 1..Len(out) : out[i].name # branches[j].name

\* The first of three branches deleted, the deletion of the second failed,
\* and the process gone.
C9_Witness ==
    /\ pc = "exited"
    /\ DeleteFailed
    /\ idx = 2
    /\ Len(branches) = 3
    /\ decisions[1].action = "Delete"
    /\ branches[1].name \notin DOMAIN refs

---------------------------------------------------------------------------
(* C10 *)

\* The commits the repository holds: deleting a branch removes no commit.
ObjectDb == {refs0[n] : n \in DOMAIN refs0}

IsPrefix(p, s) == Len(p) <= Len(s) /\ SubSeq(s, 1, Len(p)) = p

\* The commits a hex id, full or abbreviated, names.
ResolveCommit(hex) == {cm \in ObjectDb : IsPrefix(hex, OidToString(cm.id))}

\* `git branch <name> <id>`, the undo command of the confirmation line, on
\* repository r: a new branch at the commit the id names; nothing when the
\* name is taken or the id names no single commit.
GitBranch(r, name, hex) ==
    LET found == ResolveCommit(hex)
    IN  IF name \notin DOMAIN r /\ Cardinality(found) = 1
        THEN [n \in DOMAIN r \cup {name} |->
                 IF n = name THEN CHOOSE cm \in found : TRUE ELSE r[n]]
        ELSE r

\* The undo commands of the first k status lines, run one after the other.
RECURSIVE UndoAll(_, _)
UndoAll(r, k) ==
    IF k = 0 THEN r
    ELSE LET before == UndoAll(r, k - 1)
         IN  IF out[k].kind = "Deleted"
             THEN GitBranch(before, out[k].name, out[k].id)
             ELSE before

\* C10: every confirmation line names a branch of the session-start
\* snapshot that is now gone, with the full 40-digit id of the commit it
\* pointed to, and its undo command run on the repository brings the branch
\* back at that commit; when every deleted branch has its line, running all
\* the undo commands gives the initial repository.
C10_UndoRoundTrip ==
    /\ \A i \in 1..Len(out) :
          out[i].kind = "Deleted" =>
              LET n == out[i].name
              IN  /\ n \in DOMAIN refs0 \ DOMAIN refs
                  /\ Len(out[i].id) = 2 * OidBytes
                  /\ ResolveCommit(out[i].id) = {refs0[n]}
                  /\ LET undone == GitBranch(refs, n, out[i].id)
                     IN  /\ DOMAIN undone = DOMAIN refs \cup {n}
                         /\ undone[n].id = refs0[n].id
                         /\ \A m \in DOMAIN refs : undone[m] = refs[m]
    /\ (\A n \in DOMAIN refs0 \ DOMAIN refs : LineCount("Deleted", n) = 1) =>
          UndoAll(refs, Len(out)) = refs0

\* Two branches deleted that pointed to different commits whose ids start
\* with the same 10 digits.
C10_Witness ==
    /\ pc = "exited"
    /\ \E i, j \in 1..Len(out) :
          /\ out[i].kind = "Deleted" /\ out[j].kind = "Deleted"
          /\ out[i].id # out[j].id
          /\ SubSeq(out[i].id, 1, AbbrevLen) = SubSeq(out[j].id, 1, AbbrevLen)
    /\ refs # refs0
    /\ UndoAll(refs, Len(out)) = refs0

---------------------------------------------------------------------------
(* C11 *)

\* The repository had no local branch other than master when the run began.
NothingToReview == DOMAIN refs0 \ {Trunk} = {}

FoundNoneLine == [kind |-> "FoundNone", name |-> "", id |-> <<>>]

\* C11: when the repository has no local branch other than master, HEAD or
\* not, the loop over the branches is never entered (no prompt, no read, no
\* decision, no 'Ignoring' line, no deletion), and a run in which nothing
\* fails prints the 'Found no branches' line, that line alone, and exits
\* with code 0; the line is printed at most once and never when there is a
\* branch to review.
C11_FoundNoneIffEmpty ==
    /\ NothingToReview =>
          /\ branches = <<>> /\ idx = 0
          /\ pc \notin {"loop", "head", "prompt", "flush", "read", "echo", "help", "act",
                        "delete", "confirm"}
          /\ prompts = <<>> /\ nprompts = 0 /\ c = 0 /\ decisions = <<>>
          /\ refs = refs0
          /\ out \in {<<>>, <<FoundNoneLine>>}
          /\ (pc = "exited" /\ EnvOk) => (out = <<FoundNoneLine>> /\ exitCode = 0)
    /\ ~NothingToReview =>
          /\ pc # "empty"
          /\ \A i \in 1..Len(out) : out[i].kind # "FoundNone"
    /\ (\E i \in 1..Len(out) : out[i].kind = "FoundNone") =>
          /\ out = <<FoundNoneLine>>
          /\ result = OkResult
          /\ pc = "exited" => exitCode = 0

\* The process gone with code 0 in a repository whose only branch is
\* master, checked out, the line printed.
C11_Witness ==
    /\ pc = "exited"
    /\ DOMAIN refs0 = {Trunk}
    /\ head = Trunk
    /\ out = <<FoundNoneLine>>
    /\ exitCode = 0

---------------------------------------------------------------------------
(* C12 *)

\* The variants of Error.
ErrorKinds == {"CrosstermError", "IoError", "GitError", "FromUtf8Error", "InvalidInput"}

\* C12: the process exits with code 0 exactly when the closure returned
\* Ok, which it does only with the loop at the end of the branches (or with
\* none to review) and nothing written to the error stream; it exits with
\* code 1 exactly when the closure returned an error, of whichever variant,
\* and then that error's message has been written to the error stream; the
\* error stream is written in no other case.
C12_ExitCodeTellsError ==
    /\ pc = "exited" <=> exitCode \in {0, 1}
    /\ exitCode = 0 <=> (pc = "exited" /\ result.tag = "Ok")
    /\ exitCode = 1 <=> (pc = "exited" /\ result.tag = "Err")
    /\ result.tag = "Err" => result.kind \in ErrorKinds
    /\ result.tag = "Ok" =>
          /\ idx = Len(branches)
          /\ \A i \in 1..Len(branches) :
                \/ branches[i].is_head
                \/ \E j \in 1..Len(decisions) : decisions[j].name = branches[i].name
    /\ exitCode = 0 => stderr = NoMessage
    /\ exitCode = 1 =>
          /\ stderr # NoMessage
          /\ stderr.text = (IF result.kind = "InvalidInput"
                            THEN "Invalid input, Don't know what '{0}' means"
                            ELSE result.kind)
          /\ stderr.arg = result.ch
    /\ stderr # NoMessage => exitCode = 1

\* The process gone with code 1 after a write failed at the second branch,
\* the first one deleted: the message is that of the input/output error.
C12_Witness ==
    /\ pc = "exited"
    /\ exitCode = 1
    /\ result.kind = "IoError"
    /\ stderr.text = "IoError"
    /\ idx = 2
    /\ refs # refs0

---------------------------------------------------------------------------
(* C13 *)

\* C13: once the input has ended at a branch's prompt and nothing else has
\* failed, the session stays at that prompt for good: the process is
\* running, about to write, flushing or waiting on the prompt of that same
\* branch, with the same text, and the closure has returned nothing.
C13_EndOfInputWaitsForever ==
    (eofs > 0 /\ EnvOk) =>
        /\ pc \in {"prompt", "flush", "read"}
        /\ lastPrompt = PromptText(Current)
        /\ result = Running
        /\ exitCode = -1

---------------------------------------------------------------------------
(* C14 *)

\* The branches that have got the decision Delete.
DeleteDecided == {decisions[i].name : i \in {j \in 1..Len(decisions) : decisions[j].action = "Delete"}}

\* C14: the repository changes only in the step that deletes the branch
\* under review after its decision Delete, and that step removes that one
\* branch and leaves every other branch and its tip as they were; no other
\* step (a Keep, a Quit, a help legend, the skip of the HEAD branch, an
\* end-of-input retry, an invalid input, any write or failure) changes it,
\* and none moves HEAD.  So the branches are always some of the initial
\* ones, at their initial tips, master and the HEAD branch among them, and
\* the missing ones all got the decision Delete.
C14_OnlyDeleteMutates ==
    /\ [](/\ DOMAIN refs \subseteq DOMAIN refs0
          /\ \A n \in DOMAIN refs : refs[n] = refs0[n]
          /\ Trunk \in DOMAIN refs0 => Trunk \in DOMAIN refs
          /\ head # "" => head \in DOMAIN refs
          /\ (DOMAIN refs0 \ DOMAIN refs) \subseteq DeleteDecided)
    /\ [][refs' # refs =>
            /\ pc = "delete" /\ pc' = "confirm"
            /\ decisions # <<>>
            /\ decisions[Len(decisions)] = [name |-> Current.name, action |-> "Delete"]
            /\ Current.name \in DOMAIN refs
            /\ DOMAIN refs' = DOMAIN refs \ {Current.name}
            /\ \A n \in DOMAIN refs' : refs'[n] = refs[n]]_vars
    /\ [][(pc = "delete" /\ pc' = "confirm") => (Current.name \notin DOMAIN refs')]_vars
    /\ [][(pc \in {"head", "prompt", "flush", "read", "echo", "help", "act", "loop",
                   "confirm", "restore", "report"}) => (refs' = refs)]_vars
    /\ [][(head' = head) /\ (refs0' = refs0)]_vars

\* A branch just deleted that pointed to the same commit as the HEAD
\* branch, in a repository that also has master: both are still there.
C14_Witness ==
    /\ pc = "confirm"
    /\ Cardinality(DOMAIN refs0) = 3
    /\ Trunk \in DOMAIN refs0
    /\ head \notin {"", Trunk}
    /\ refs0[head] = refs0[Current.name]
    /\ DOMAIN refs = {Trunk, head}

---------------------------------------------------------------------------
(* C15 *)

\* C15 as the specification states it: a character that is no command
\* fails as InvalidInput and the caller then asks again for the same
\* branch, the session going on with the branch neither deleted nor passed
\* over.
C15_InvalidInputReprompts ==
    [][(pc = "act" /\ c \notin Commands) =>
          /\ pc' = "prompt"
          /\ UNCHANGED <<idx, refs, decisions>>]_vars

\* C15, amended: a character that is no command fails as InvalidInput with
\* that character, and the caller does not ask again: the error leaves the
\* loop at once, the branch under review is neither deleted nor decided,
\* and from then on no prompt is written, no character is read, and the
\* only steps left are the restoration of the terminal and the exit with
\* code 1.
C15_InvalidInputEndsSession ==
    /\ [][(pc = "act" /\ c \notin Commands) =>
            /\ result' = Err("InvalidInput", c)
            /\ pc' = "restore"
            /\ UNCHANGED <<idx, refs, decisions, prompts, lastPrompt, out>>]_vars
    /\ [][result.kind = "InvalidInput" =>
            /\ pc' \in {"report", "exited"}
            /\ UNCHANGED <<result, idx, refs, decisions, prompts, lastPrompt, nprompts,
                           pending, c, out>>]_vars
    /\ [](result.kind = "InvalidInput" =>
            /\ pc \in {"restore", "report", "exited"}
            /\ nprompts = 0
            /\ Current.name \in DOMAIN refs
            /\ \A i \in 1..Len(decisions) : decisions[i].name # Current.name
            /\ Len(prompts) = Len(decisions) + 1
            /\ exitCode \in {-1, 1})

\* The byte 255 typed at the first prompt of a repository with two
\* branches to review: the process is gone with code 1, one prompt written,
\* no decision taken, nothing deleted.
C15_Witness ==
    /\ pc = "exited"
    /\ result = Err("InvalidInput", 255)
    /\ exitCode = 1
    /\ Len(branches) = 2
    /\ idx = 1
    /\ Len(prompts) = 1
    /\ decisions = <<>>
    /\ refs = refs0

---------------------------------------------------------------------------
(* C16 *)

\* The closure's result is an error of the listing (or of opening the
\* repository, which fails with the same kind of error before it).
ListingFailed == result.kind = "FromUtf8Error" \/ (result.kind = "GitError" /\ idx = 0)

\* C16: whenever reading the name or the tip of some local branch fails,
\* master included, get_branches returns an error, one of those met, and
\* no sequence; and a run whose listing failed has no branch sequence, has
\* written no prompt and no line, has read nothing, has deleted nothing,
\* is over, and exits with code 1 and the error's message.
C16_FailFastListing ==
    /\ pc = "list" =>
          \A faults \in BranchFaults(refs) :
              (\E n \in DOMAIN refs : faults[n] # "") =>
                  \A got \in GetBranches(refs, head, faults) :
                      /\ ~got.ok
                      /\ got.branches = <<>>
                      /\ \E n \in DOMAIN refs : faults[n] # "" /\ got.kind = faults[n]
    /\ ListingFailed =>
          /\ Ended
          /\ branches = <<>>
          /\ out = <<>> /\ prompts = <<>> /\ nprompts = 0 /\ c = 0
          /\ decisions = <<>>
          /\ refs = refs0
          /\ pc = "exited" => (exitCode = 1 /\ stderr.text = result.kind)

\* A repository with master and two other branches: a branch name that is
\* not UTF-8 has failed the listing and the process is gone with code 1.
C16_Witness ==
    /\ pc = "exited"
    /\ result.kind = "FromUtf8Error"
    /\ Trunk \in DOMAIN refs0
    /\ Cardinality(DOMAIN refs0) = 3
    /\ exitCode = 1
    /\ out = <<>> /\ prompts = <<>>
    /\ refs = refs0

---------------------------------------------------------------------------
(* C17 *)

\* C17: the program waits for a character only with the prompt of the
\* branch under review written, once more than the legends and
\* end-of-input retries before it, and flushed: every arrival at the read
\* is the flush of a prompt written just before.  The character read is
\* echoed before anything is made of it: the test for `?` and try_from see
\* only an echoed character, so a legend, a decision, an InvalidInput
\* result and a deletion all come after the echo of the character that
\* caused them.
C17_PromptFlushEchoOrder ==
    /\ [](pc = "read" =>
            /\ ~pending
            /\ nprompts = helps + eofs + 1
            /\ lastPrompt = PromptText(Current)
            /\ c = 0 /\ ~echoed)
    /\ [](pc = "echo" => (c # 0 /\ ~echoed))
    /\ [](pc \in {"help", "act"} => (c # 0 /\ echoed))
    /\ [][(pc' = "read" /\ pc # "read") => (pc = "flush" /\ pending /\ ~pending')]_vars
    /\ [][(pc' = "flush" /\ pc # "flush") =>
            (pc = "prompt" /\ ~pending /\ pending' /\ nprompts' = nprompts + 1)]_vars
    /\ [][(pc' \in {"help", "act"} /\ pc # pc') => (pc = "echo" /\ echoed' /\ c' = c)]_vars
    /\ [][(helps' > helps) => (pc = "help" /\ echoed /\ c = CharHelp)]_vars
    /\ [][(decisions' # decisions) => (pc = "act" /\ echoed)]_vars
    /\ [][(result'.kind = "InvalidInput" /\ result.kind # "InvalidInput") =>
            (pc = "act" /\ echoed /\ result'.ch = c)]_vars
    /\ [][(refs' # refs) =>
            (decisions # <<>> /\
             decisions[Len(decisions)] = [name |-> Current.name, action |-> "Delete"])]_vars

\* After a `?` and its legend the prompt has been written and flushed a
\* second time, the byte 255 has been read and echoed, and try_from is
\* about to reject it.
C17_Witness ==
    /\ pc = "act"
    /\ helps = 1
    /\ nprompts = 2
    /\ ~pending
    /\ c = 255
    /\ echoed

---------------------------------------------------------------------------
(* C18 *)

\* The branches that are gone.
Deleted == DOMAIN refs0 \ DOMAIN refs

\* C18: no branch gets two decisions and none is asked about twice; a
\* branch that has its decision is behind the loop's position or is the
\* one being deleted or confirmed, never one being prompted for, read for
\* or interpreted; whatever the program is doing to the branch under
\* review, short of confirming its deletion, that branch exists; the
\* deletion is entered only from a `d` just interpreted and is left at
\* once, so it runs at most once per Delete decision; and the branches
\* gone are no more than the Delete decisions, each of which was a `d`
\* read.
C18_OneDecisionPerBranch ==
    /\ [](/\ \A i, j \in 1..Len(decisions) : i # j => decisions[i].name # decisions[j].name
          /\ \A i, j \in 1..Len(prompts) : i # j => prompts[i] # prompts[j]
          /\ \A i \in 1..Len(decisions) :
                /\ 0 < Pos(decisions[i].name) /\ Pos(decisions[i].name) <= idx
                /\ Pos(decisions[i].name) = idx =>
                      pc \in {"loop", "delete", "confirm", "restore", "report", "exited"}
          /\ pc \in {"head", "prompt", "flush", "read", "echo", "help", "act", "delete"} =>
                Current.name \in DOMAIN refs
          /\ Deleted \subseteq DeleteDecided
          /\ Cardinality(Deleted) <= Cardinality(DeleteDecided)
          /\ Cardinality(DeleteDecided) <= Len(decisions))
    /\ [][(decisions' # decisions) =>
            /\ pc = "act"
            /\ \E a \in {"Keep", "Delete", "Quit"} :
                  /\ decisions' = Append(decisions, [name |-> Current.name, action |-> a])
                  /\ a = "Delete" <=> c = CharD]_vars
    /\ [][(pc' = "delete" /\ pc # "delete") => (pc = "act" /\ c = CharD)]_vars
    /\ [][(pc = "delete") => (pc' \in {"confirm", "restore"})]_vars
    /\ [][(pc = "confirm") => (pc' \in {"loop", "restore"})]_vars

\* Three branches, `d` read for each: the first two are gone, the deletion
\* of the third failed.
C18_Witness ==
    /\ pc = "exited"
    /\ Len(decisions) = 3
    /\ \A i \in 1..3 : decisions[i].action = "Delete"
    /\ Cardinality(Deleted) = 2
    /\ result.kind = "GitError"

---------------------------------------------------------------------------
(* C19 *)

\* C19: raw mode is off until the repository has been opened and is
\* entered only by the step that follows a successful opening; it is on
\* while the branches are listed and at every step of the loop: every
\* prompt, flush, read, echo, legend, decision, deletion and status line.
\* When the opening fails the closure ends with the git error and raw mode
\* off, and it stays off: nothing has been or will be prompted, listed or
\* written, and the process exits with code 1.
C19_RawModeAfterOpen ==
    /\ [](pc \in {"open", "enable"} => ~rawMode)
    /\ [](pc \in {"list", "empty", "loop", "head", "prompt", "flush", "read", "echo",
                  "help", "act", "delete", "confirm"} => rawMode)
    /\ [][(rawMode' /\ ~rawMode) =>
            (pc = "enable" /\ pc' = "list" /\ result = Running)]_vars
    /\ [][(pc = "open" /\ pc' # "enable") =>
            (pc' = "restore" /\ result' = Err("GitError", 0) /\ ~rawMode')]_vars
    /\ []((Ended /\ ~rawMode /\ restores = 0) =>
            /\ result.kind \in {"GitError", "CrosstermError"}
            /\ branches = <<>> /\ prompts = <<>> /\ out = <<>> /\ nprompts = 0
            /\ refs = refs0)
    /\ [][(pc \in {"restore", "report"}) =>
            /\ rawMode' => rawMode
            /\ UNCHANGED <<branches, prompts, out, nprompts, refs>>]_vars
    /\ []((pc = "exited" /\ result.tag = "Err") => exitCode = 1)

\* The opening failed, and so did the call that restores the terminal:
\* raw mode is off all the same, having never been entered, and the process
\* is gone with code 1 and no prompt.
C19_Witness ==
    /\ pc = "exited"
    /\ result = Err("GitError", 0)
    /\ restoreErr
    /\ ~rawMode
    /\ prompts = <<>>
    /\ exitCode = 1

---------------------------------------------------------------------------
(* C20 *)

\* The branches the loop has reached that are not the HEAD branch.
ReviewedNonHead == {i \in 1..idx : ~branches[i].is_head}

\* C20: every run in which the input does not end reaches the exit of the
\* process (the runs of `?` being finite).  On the way the loop's position
\* only moves forward, one branch at a time, up to the number of branches;
\* a character other than `?` is read only at the prompt of a branch that
\* is not the HEAD branch and has no decision yet, and once it has been
\* read nothing more is read for that branch; the HEAD branch's arm reads
\* nothing; so the characters other than `?` consumed are at most one per
\* reviewed branch that is not the HEAD branch.
C20_Terminates ==
    /\ <>(pc = "exited" \/ eofs > 0)
    /\ [](/\ idx <= Len(branches)
          /\ pc \in {"prompt", "flush", "read", "echo", "help", "act"} => ~Current.is_head
          /\ pc = "head" => Current.is_head
          /\ Len(prompts) <= Cardinality(ReviewedNonHead)
          /\ Len(decisions) + (IF pc \in {"echo", "act"} /\ c # CharHelp THEN 1 ELSE 0)
                <= Cardinality(ReviewedNonHead))
    /\ [][(idx' # idx) => (pc = "loop" /\ idx' = idx + 1)]_vars
    /\ [][(pc = "loop") => (idx' = idx + 1 \/ (idx = Len(branches) /\ pc' = "restore"))]_vars
    /\ [][(c' # c /\ c' # 0) =>
            /\ pc = "read" /\ c = 0
            /\ ~Current.is_head
            /\ \A i \in 1..Len(decisions) : decisions[i].name # Current.name]_vars
    /\ [][(pc \in {"echo", "act"} /\ c # CharHelp) =>
            (pc' \notin {"prompt", "flush", "read", "help"} /\ c' \in {0, c})]_vars
    /\ [][(pc = "head") => (pc' \in {"loop", "restore"} /\ c' = c)]_vars

\* A run over three branches, the HEAD branch among them, that has exited
\* with code 0 after one decision for each of the other two.
C20_Witness ==
    /\ pc = "exited"
    /\ exitCode = 0
    /\ Len(branches) = 3
    /\ Cardinality(ReviewedNonHead) = 2
    /\ Len(decisions) = 2
    /\ idx = 3

====
